---- MODULE Spec2Model ----
(***************************************************************************)
(* The V4L2 capture object of ros-video-streaming (V4L2Capture, with the   *)
(* destructor of VideoCapture) together with the part of the kernel it     *)
(* talks to: the descriptor, the driver's buffer set, the mmap regions and *)
(* the streaming flag.  Every public operation is one action; the answers  *)
(* of the kernel calls an operation makes are chosen nondeterministically. *)
(***************************************************************************)
EXTENDS Integers, Sequences, FiniteSets, TLC

\* ---------------------------------------------------------------- bounds
\* Largest buffer count the driver grants in answer to REQBUFS.
MaxGrant == 2
\* Number of buffer sets (one per granted REQBUFS) that have live mappings at
\* the same time.
MaxGen == 2
\* Number of buffers a counting driver fills in one streaming session.
MaxSeq == 2
\* Number of times in a row a signal interrupts one ioctl.
MaxIntr == 2

\* ------------------------------------------------------ program constants
CLOSED_HANDLE == -1
IOCTL_ERROR_CODE == -1
V4L2_MAX_BUFFER_SIZE == 32

\* ----------------------------------------------------------- input sets
CaptureParam ==
  {"FRAME_WIDTH", "FRAME_HEIGHT", "FRAME_RATE", "V4L2_PIX_FMT", "V4L2_BUFFERS_NUM"}

\* The values the caller passes for each parameter (constructor and Set).
ParamValues(param) ==
  CASE param = "FRAME_WIDTH"      -> {640}
    [] param = "FRAME_HEIGHT"     -> {480}
    [] param = "FRAME_RATE"       -> {15, 30}
    [] param = "V4L2_PIX_FMT"     -> {1196444237}
    [] param = "V4L2_BUFFERS_NUM" -> {0, 1, 2, 32, 33}

\* The buffer counts the constructor is given.
CtorBufferNums == {4}

\* What open() returns: the sentinel or a descriptor.
OpenResults == {CLOSED_HANDLE, 3}

\* The sizeimage a driver reports for the format it installed, and the
\* bytesused values it reports for a filled buffer.
SizeImage(width) == IF width = 640 THEN 100 ELSE 200
SizeImages == {100, 200}

\* The capability bits of VIDIOC_QUERYCAP the model tells apart.
CapBits == {"VIDEO_CAPTURE", "STREAMING", "TIMEPERFRAME"}

\* The drivers the model tells apart.  An exact driver installs the format it
\* is asked for and leaves v4l2_buffer.sequence at zero; an adjusting driver
\* may answer TRY_FMT and S_FMT with the nearest width it supports; a counting
\* driver numbers the buffers it fills; a rounding driver may answer S_PARM
\* with the nearest frame rate it supports.
DriverKinds == {"exact", "adjusting", "counting", "rounding"}

\* The width an adjusting driver falls back to.
FallbackWidth == 320

\* The frame rate a rounding driver settles on.
RoundedRate == 25

VARIABLES
  alive,             \* the object is constructed and not yet destroyed
  handle_,           \* V4L2Capture::handle_
  isStreaming_,      \* V4L2Capture::isStreaming_
  params_,           \* V4L2Capture::params_
  imageSize_,        \* V4L2Capture::imageSize_
  internalBuffers_,  \* V4L2Capture::internalBuffers_ (the ring of mappings)
  fdOpen,            \* kernel: the descriptor is open
  closeCount,        \* kernel: close() calls seen on the descriptor
  mapped,            \* kernel: the live mmap regions
  reqOutstanding,    \* kernel: a granted non-zero REQBUFS not yet followed
                     \*         by REQBUFS(0) or close
  streamOn,          \* kernel: the driver is in STREAMON
  queued,            \* kernel: buffer indexes owned by the driver
  driver,            \* kernel: the kind of driver behind the device
  format,            \* kernel: the format S_FMT installed
  sequence,          \* kernel: buffers filled in this streaming session
  lastOp,            \* the operation that ran last
  args,              \* the arguments it was called with
  ret,               \* what it returned
  calls,             \* the kernel calls it made, in order
  failures,          \* those of them that failed
  reqbufs,           \* the count its REQBUFS asked for and was granted
  dq,                \* the buffer its DQBUF handed out, if one did
  probe,             \* what its capability probe was answered
  parm,              \* what its S_PARM was answered
  readable,          \* what its readiness wait was answered
  xio                \* the ioctl wrapper: its position, locals and errno

vars == <<alive, handle_, isStreaming_, params_, imageSize_, internalBuffers_,
          fdOpen, closeCount, mapped, reqOutstanding, streamOn, queued,
          driver, format, sequence,
          lastOp, args, ret, calls, failures, reqbufs, dq, probe, parm,
          readable, xio>>

\* -------------------------------------------------------- return values
RetBool(b) == [kind |-> "bool", b |-> b]
RetNone == [kind |-> "none", b |-> FALSE]
RetVoid == [kind |-> "void", b |-> FALSE]
\* A Frame built from a mapping and a length; no sequence is passed, so the
\* Frame reports the default one.
RetFrame(len, entry) ==
  [kind |-> "frame", b |-> TRUE, length |-> len, entry |-> entry, sequence |-> 0]

\* No REQBUFS was answered.
NoReqbufs == [asked |-> 0, granted |-> 0]

\* No buffer was dequeued.
NoDq == [taken |-> FALSE, index |-> 0, error |-> FALSE, bytesused |-> 0,
         sequence |-> 0]

\* The capabilities were not queried.
NoProbe == [asked |-> FALSE, querycap |-> FALSE, bits |-> {}, input |-> "NONE"]

\* No S_PARM was answered.
NoParm == [answered |-> FALSE, denominator |-> 0]

\* The ioctl wrapper is not running; errno holds no error yet.
XioIdle == [pc |-> "idle", request |-> "NONE", ret |-> 0, errno |-> "NONE",
            answer |-> [value |-> 0, errno |-> "NONE"],
            issued |-> 0, interrupted |-> 0, result |-> 0]

ReturnedTrue == ret.kind = "bool" /\ ret.b
ReturnedFalse == ret.kind = "bool" /\ ~ret.b

\* ---------------------------------------------- the machine as a record
\* The object and the kernel at the start of an operation (no call made yet).
Begin ==
  [handle_ |-> handle_, isStreaming_ |-> isStreaming_, params_ |-> params_,
   imageSize_ |-> imageSize_, internalBuffers_ |-> internalBuffers_,
   fdOpen |-> fdOpen, closeCount |-> closeCount, mapped |-> mapped,
   reqOutstanding |-> reqOutstanding, streamOn |-> streamOn,
   queued |-> queued, driver |-> driver,
   format |-> format, sequence |-> sequence,
   args |-> <<>>, calls |-> <<>>, failures |-> {}, reqbufs |-> NoReqbufs,
   dq |-> NoDq, probe |-> NoProbe, parm |-> NoParm, readable |-> "none"]

\* An operation ends: its effects become the next state.
Return(m, op, value) ==
  /\ handle_' = m.handle_
  /\ isStreaming_' = m.isStreaming_
  /\ params_' = m.params_
  /\ imageSize_' = m.imageSize_
  /\ internalBuffers_' = m.internalBuffers_
  /\ fdOpen' = m.fdOpen
  /\ closeCount' = m.closeCount
  /\ mapped' = m.mapped
  /\ reqOutstanding' = m.reqOutstanding
  /\ streamOn' = m.streamOn
  /\ queued' = m.queued
  /\ driver' = m.driver
  /\ format' = m.format
  /\ sequence' = m.sequence
  /\ args' = m.args
  /\ calls' = m.calls
  /\ failures' = m.failures
  /\ reqbufs' = m.reqbufs
  /\ dq' = m.dq
  /\ probe' = m.probe
  /\ parm' = m.parm
  /\ readable' = m.readable
  /\ xio' = xio
  /\ lastOp' = op
  /\ ret' = value

\* One kernel call is made.
Call(m, name) == [m EXCEPT !.calls = Append(@, name)]

\* One kernel call is made and fails.
Fail(m, name) == [m EXCEPT !.calls = Append(@, name), !.failures = @ \cup {name}]

\* The operation was called with these arguments.
With(m, arguments) == [m EXCEPT !.args = arguments]

\* n copies of one call.
Repeat(name, n) == [i \in 1..n |-> name]

Res(ok, m) == [ok |-> ok, m |-> m]

\* ------------------------------------------------------------- queries
IsOpened(m) == m.handle_ # CLOSED_HANDLE

IsStreaming(m) == m.isStreaming_

Get(m, param) == m.params_[param]

is_in_range(low, high, value) == value >= low /\ value <= high

\* ------------------------------------------------- capability probe
\* The answers of VIDIOC_QUERYCAP and of the current-input query.
InputAnswers == {"G_INPUT_FAILED", "NOT_CAMERA", "NO_POWER", "NO_SIGNAL", "CAMERA_OK"}

\* The bitfields a driver reports: only a rounding driver may lack
\* TIMEPERFRAME.
DriverBits(m) ==
  IF m.driver = "rounding" THEN SUBSET CapBits
  ELSE {bits \in SUBSET CapBits : "TIMEPERFRAME" \in bits}

\* QUERYCAP fails; or the input check fails on a capable driver; or the input
\* is a good camera and the driver reports one of its bitfields.
CapOutcomes(m) ==
  [querycap : {FALSE}, bits : {{}}, input : {"CAMERA_OK"}]
    \cup [querycap : {TRUE}, bits : {CapBits}, input : InputAnswers]
    \cup [querycap : {TRUE}, bits : DriverBits(m), input : {"CAMERA_OK"}]

\* G_INPUT, then ENUMINPUT of that index: a camera with power and signal.
v4l2_check_input_capabilities(m, input) ==
  LET m1 == Call(m, "G_INPUT")
  IN  IF input = "G_INPUT_FAILED" THEN Res(FALSE, Fail(m, "G_INPUT"))
      ELSE Res(input = "CAMERA_OK", Call(m1, "ENUMINPUT"))

v4l2_check_capabilities(bits, required) == required \subseteq bits

\* The probe was answered: the bitfield and the input, as far as they were
\* obtained.
Probed(m, o) ==
  [m EXCEPT !.probe = [asked |-> TRUE, querycap |-> o.querycap,
                       bits |-> IF o.querycap THEN o.bits ELSE {},
                       input |-> IF o.querycap THEN o.input ELSE "NONE"]]

checkSupportedCapabilities(m, o) ==
  LET requiredCapabilities == {"VIDEO_CAPTURE", "STREAMING"}
      m1 == Call(Probed(m, o), "QUERYCAP")
  IN  IF o.querycap
        THEN LET r == v4l2_check_input_capabilities(m1, o.input)
             IN  Res(r.ok /\ v4l2_check_capabilities(o.bits, requiredCapabilities), r.m)
        ELSE Res(TRUE, Fail(Probed(m, o), "QUERYCAP"))

\* ------------------------------------------------- format negotiation
\* No format has been installed yet.
NoFormat == [pixelformat |-> 0, width |-> 0, height |-> 0, sizeimage |-> 0]

\* TRY_FMT and S_FMT each fail or answer; the answer carries the format the
\* driver settles on for the request and the sizeimage that goes with it.  An
\* adjusting driver may settle on its fallback width.
DriverFormats(m) ==
  {[pixelformat |-> Get(m, "V4L2_PIX_FMT"), width |-> w,
    height |-> Get(m, "FRAME_HEIGHT"), sizeimage |-> SizeImage(w)] :
     w \in IF m.driver = "adjusting"
             THEN {Get(m, "FRAME_WIDTH"), FallbackWidth}
             ELSE {Get(m, "FRAME_WIDTH")}}

FmtOutcomes(m) ==
  [try : {FALSE}, set : {FALSE}, fmt : {CHOOSE f \in DriverFormats(m) : TRUE}]
    \cup [try : {TRUE}, set : {FALSE}, fmt : {CHOOSE f \in DriverFormats(m) : TRUE}]
    \cup [try : {TRUE}, set : {TRUE}, fmt : DriverFormats(m)]

negotiateFormat(m, o) ==
  IF ~o.try THEN Res(FALSE, Fail(m, "TRY_FMT"))
  ELSE LET m1 == Call(m, "TRY_FMT")
       IN  IF ~o.set THEN Res(FALSE, Fail(m1, "S_FMT"))
           ELSE Res(TRUE, [Call(m1, "S_FMT") EXCEPT
                             !.format = o.fmt,
                             !.imageSize_ = o.fmt.sizeimage])

\* S_PARM fails or answers with the denominator the driver settled on.
RateOutcomes(m) ==
  [ok : {FALSE}, denominator : {Get(m, "FRAME_RATE")}]
    \cup [ok : {TRUE},
          denominator : IF m.driver = "rounding"
                          THEN {Get(m, "FRAME_RATE"), RoundedRate}
                          ELSE {Get(m, "FRAME_RATE")}]

negotiateFrameRate(m, o) ==
  IF o.ok
    THEN Res(TRUE, [Call(m, "S_PARM") EXCEPT
                      !.parm = [answered |-> TRUE, denominator |-> o.denominator],
                      !.params_["FRAME_RATE"] = o.denominator])
    ELSE Res(FALSE, Fail(m, "S_PARM"))

\* ---------------------------------------------------------- buffer ring
\* REQBUFS fails or grants count buffers, at least one when buffers were asked
\* for (a driver that can allocate none fails the call); QUERYBUF or mmap of
\* index failAt fails (failAt = count: none does).
AllocOutcomes(m) ==
  LET grants == IF Get(m, "V4L2_BUFFERS_NUM") = 0 THEN {0} ELSE 1..MaxGrant
  IN  [reqbufs : {FALSE}, count : {0}, failAt : {0}, failCall : {"QUERYBUF"}]
        \cup {[reqbufs |-> TRUE, count |-> c, failAt |-> c, failCall |-> "QUERYBUF"] :
                c \in grants}
        \cup UNION {{[reqbufs |-> TRUE, count |-> c, failAt |-> k, failCall |-> f] :
                       k \in 0..(c - 1), f \in {"QUERYBUF", "mmap"}} : c \in grants}

\* The buffer sets that have live mappings, oldest first, are numbered from 1.
LiveGens(m) == {r.gen : r \in m.mapped}

NextGen(m) == IF LiveGens(m) = {} THEN 1
              ELSE 1 + CHOOSE g \in LiveGens(m) : \A h \in LiveGens(m) : h <= g

QueryAndMapCalls(k) == [j \in 1..(2 * k) |-> IF j % 2 = 1 THEN "QUERYBUF" ELSE "mmap"]

\* allocateInternalBuffers keeping the count it asked for when the driver
\* grants another one.
allocateInternalBuffers_KeepsRequestedCount(m, o) ==
  LET requested == Get(m, "V4L2_BUFFERS_NUM")
  IN  IF ~o.reqbufs THEN Res(FALSE, Fail(m, "REQBUFS"))
      ELSE
        LET m1 == Call(m, "REQBUFS")
            g == NextGen(m1)
            done == o.failAt
            fresh == [i \in 1..done |-> [gen |-> g, index |-> i - 1]]
            m2 == [m1 EXCEPT
                     !.reqOutstanding = (requested # 0),
                     !.reqbufs = [asked |-> requested, granted |-> o.count],
                     !.queued = {},
                     !.internalBuffers_ = @ \o fresh,
                     !.mapped = @ \cup {fresh[i] : i \in 1..done},
                     !.calls = @ \o QueryAndMapCalls(done)]
        IN  IF o.failAt = o.count THEN Res(TRUE, m2)
            ELSE IF o.failCall = "QUERYBUF" THEN Res(FALSE, Fail(m2, "QUERYBUF"))
            ELSE Res(FALSE, Fail(Call(m2, "QUERYBUF"), "mmap"))

allocateInternalBuffers(m, o) ==
  LET requested == Get(m, "V4L2_BUFFERS_NUM")
  IN  IF ~o.reqbufs THEN Res(FALSE, Fail(m, "REQBUFS"))
      ELSE
        LET m1 == Call(m, "REQBUFS")
            g == NextGen(m1)
            done == o.failAt
            fresh == [i \in 1..done |-> [gen |-> g, index |-> i - 1]]
            m2 == [m1 EXCEPT
                     !.reqOutstanding = (requested # 0),
                     !.reqbufs = [asked |-> requested, granted |-> o.count],
                     !.queued = {},
                     !.params_["V4L2_BUFFERS_NUM"] =
                        IF o.count # requested THEN o.count ELSE @,
                     !.internalBuffers_ = @ \o fresh,
                     !.mapped = @ \cup {fresh[i] : i \in 1..done},
                     !.calls = @ \o QueryAndMapCalls(done)]
        IN  IF o.failAt = o.count THEN Res(TRUE, m2)
            ELSE IF o.failCall = "QUERYBUF" THEN Res(FALSE, Fail(m2, "QUERYBUF"))
            ELSE Res(FALSE, Fail(Call(m2, "QUERYBUF"), "mmap"))

\* The ring's elements are destroyed: each mapping is unmapped.
unmapAll(m) ==
  [m EXCEPT
     !.calls = @ \o Repeat("munmap", Len(m.internalBuffers_)),
     !.mapped = @ \ {m.internalBuffers_[i] : i \in 1..Len(m.internalBuffers_)},
     !.internalBuffers_ = <<>>]

\* cleanupInternalBuffers unmapping the ring's buffers and keeping its entries.
cleanupInternalBuffers_KeepsEntries(m) ==
  IF m.internalBuffers_ # <<>>
    THEN [Call(unmapAll(m), "REQBUFS0") EXCEPT
            !.reqOutstanding = FALSE, !.queued = {},
            !.internalBuffers_ = m.internalBuffers_]
    ELSE m

\* cleanupInternalBuffers clearing the ring without telling the driver.
cleanupInternalBuffers_NoReqbufsZero(m) ==
  IF m.internalBuffers_ # <<>> THEN unmapAll(m) ELSE m

cleanupInternalBuffers(m) ==
  IF m.internalBuffers_ # <<>>
    THEN [Call(unmapAll(m), "REQBUFS0") EXCEPT !.reqOutstanding = FALSE,
                                               !.queued = {}]
    ELSE m

\* QBUF of index failAt fails (failAt = the buffer count: none does), then
\* STREAMON fails or succeeds.
EnableOutcomes(m) ==
  [qbufFailAt : 0..Get(m, "V4L2_BUFFERS_NUM"), streamon : BOOLEAN]

enableStreaming(m, o) ==
  LET n == Get(m, "V4L2_BUFFERS_NUM")
      m1 == [m EXCEPT !.calls = @ \o Repeat("QBUF", o.qbufFailAt),
                      !.queued = @ \cup 0..(o.qbufFailAt - 1)]
  IN  IF o.qbufFailAt < n THEN Res(FALSE, Fail(m1, "QBUF"))
      ELSE IF ~o.streamon THEN Res(FALSE, Fail(m1, "STREAMON"))
      ELSE Res(TRUE, [Call(m1, "STREAMON") EXCEPT
                        !.isStreaming_ = TRUE, !.streamOn = TRUE, !.sequence = 0])

disableSteaming(m, streamoff) ==
  IF ~streamoff THEN Res(FALSE, Fail(m, "STREAMOFF"))
  ELSE Res(TRUE, [Call(m, "STREAMOFF") EXCEPT
                    !.isStreaming_ = FALSE, !.streamOn = FALSE, !.queued = {}])

\* ------------------------------------------------------ the operations
\* V4L2Capture::V4L2Capture: the fields are set, then the device is opened.
Init ==
  /\ alive = TRUE
  /\ handle_ \in OpenResults
  /\ isStreaming_ = FALSE
  /\ params_ \in [FRAME_WIDTH : {640}, FRAME_HEIGHT : {480}, FRAME_RATE : {30},
                  V4L2_PIX_FMT : {1196444237}, V4L2_BUFFERS_NUM : CtorBufferNums]
  /\ imageSize_ = 0
  /\ internalBuffers_ = <<>>
  /\ fdOpen = (handle_ # CLOSED_HANDLE)
  /\ closeCount = 0
  /\ mapped = {}
  /\ reqOutstanding = FALSE
  /\ streamOn = FALSE
  /\ queued = {}
  /\ driver = "exact"
  /\ format = NoFormat
  /\ sequence = 0
  /\ lastOp = "construct"
  /\ args = <<>>
  /\ ret = RetVoid
  /\ calls = <<>>
  /\ failures = {}
  /\ reqbufs = NoReqbufs
  /\ dq = NoDq
  /\ probe = NoProbe
  /\ parm = NoParm
  /\ readable = "none"
  /\ xio = XioIdle

\* StartStreaming past its two early returns: the probe, the negotiations,
\* the allocation and the switch to streaming, for every answer of the kernel.
negotiateAndEnable(m) ==
  UNION {
    LET r1 == checkSupportedCapabilities(m, co)
    IN  IF ~r1.ok THEN {Res(FALSE, r1.m)}
        ELSE UNION {
          LET r2 == negotiateFormat(r1.m, fo)
          IN  IF ~r2.ok THEN {Res(FALSE, r2.m)}
              ELSE UNION {
                LET r3 == negotiateFrameRate(r2.m, ro)
                IN  IF ~r3.ok THEN {Res(FALSE, r3.m)}
                    ELSE UNION {
                      LET r4 == allocateInternalBuffers(r3.m, ao)
                      IN  IF ~r4.ok THEN {Res(FALSE, cleanupInternalBuffers(r4.m))}
                          ELSE {enableStreaming(r4.m, eo) : eo \in EnableOutcomes(r4.m)}
                      : ao \in AllocOutcomes(r3.m)}
                : ro \in RateOutcomes(r2.m)}
          : fo \in FmtOutcomes(r1.m)}
    : co \in CapOutcomes(m)}

\* StartStreaming with the check for a closed handle left out.
startStreaming_NoOpenedCheck(m) ==
  IF IsStreaming(m) THEN {Res(TRUE, m)} ELSE negotiateAndEnable(m)

\* The body of StartStreaming on machine m: every outcome the kernel's
\* answers allow, each with the value returned.
startStreaming(m) ==
  IF ~IsOpened(m) THEN {Res(FALSE, m)}
  ELSE IF IsStreaming(m) THEN {Res(TRUE, m)}
  ELSE negotiateAndEnable(m)

StartStreaming ==
  /\ alive
  /\ NextGen(Begin) <= MaxGen \/ isStreaming_
  /\ \E r \in startStreaming(Begin) : Return(r.m, "start", RetBool(r.ok))

\* StopStreaming with the early return of a session that is not streaming
\* left out.
stopStreaming_NoStreamingCheck(m, streamoff) ==
  IF ~IsOpened(m) THEN Res(FALSE, m)
  ELSE LET r == disableSteaming(m, streamoff)
       IN  IF ~r.ok THEN Res(FALSE, r.m)
           ELSE Res(TRUE, cleanupInternalBuffers(r.m))

\* The body of StopStreaming on machine m; streamoff is STREAMOFF's answer.
stopStreaming(m, streamoff) ==
  IF ~IsOpened(m) THEN Res(FALSE, m)
  ELSE IF ~IsStreaming(m) THEN Res(TRUE, m)
  ELSE LET r == disableSteaming(m, streamoff)
       IN  IF ~r.ok THEN Res(FALSE, r.m)
           ELSE Res(TRUE, cleanupInternalBuffers(r.m))

StopStreaming ==
  /\ alive
  /\ \E streamoff \in BOOLEAN :
       LET r == stopStreaming(Begin, streamoff)
       IN  Return(r.m, "stop", RetBool(r.ok))

\* Set with the check for a running session left out.
set_NoStreamingCheck(m, param, value) ==
  IF /\ param = "V4L2_BUFFERS_NUM"
     /\ ~is_in_range(1, V4L2_MAX_BUFFER_SIZE, value)
    THEN Res(FALSE, m)
    ELSE Res(TRUE, [m EXCEPT !.params_[param] = value])

\* The body of Set on machine m.
set(m, param, value) ==
  IF IsStreaming(m) THEN Res(FALSE, m)
  ELSE IF /\ param = "V4L2_BUFFERS_NUM"
          /\ ~is_in_range(1, V4L2_MAX_BUFFER_SIZE, value)
    THEN Res(FALSE, m)
    ELSE Res(TRUE, [m EXCEPT !.params_[param] = value])

Set ==
  /\ alive
  /\ \E param \in CaptureParam : \E value \in ParamValues(param) :
       LET r == set(With(Begin, <<param, value>>), param, value)
       IN  Return(r.m, "set", RetBool(r.ok))

\* ----------------------------------------------------------- read path
\* select() on the descriptor: ready, timed out, or failed.
SelectAnswers == {"ready", "timeout", "error"}

v4l2_is_readable(m, ready) ==
  LET m1 == [m EXCEPT !.readable = ready]
  IN  IF ready = "error" THEN Res(FALSE, Fail(m1, "select"))
      ELSE Res(ready = "ready", Call(m1, "select"))

\* DQBUF fails (EAGAIN, EIO, another errno) or hands out one of the buffers
\* the driver owns, flagged or not, with its bytesused; qbuf is the answer
\* of the QBUF that gives the buffer back.  A counting driver fills at most
\* MaxSeq buffers in a session.
DqbufOutcomes(m) ==
  [status : {"EAGAIN", "EIO", "EINVAL"}, index : {0}, error : {FALSE},
   bytesused : {0}, qbuf : {TRUE}]
    \cup IF m.driver = "counting" /\ m.sequence >= MaxSeq THEN {}
         ELSE [status : {"OK"}, index : m.queued, error : BOOLEAN,
               bytesused : SizeImages, qbuf : BOOLEAN]

\* The kernel's side of a successful DQBUF: the buffer leaves the driver and
\* carries the driver's frame counter.
v4l2_dqbuf(m, o) ==
  [Call(m, "DQBUF") EXCEPT
     !.queued = @ \ {o.index},
     !.dq = [taken |-> TRUE, index |-> o.index, error |-> o.error,
             bytesused |-> o.bytesused, sequence |-> m.sequence],
     !.sequence = IF m.driver = "counting" THEN @ + 1 ELSE @]

\* The kernel's side of QBUF on one index: the buffer goes back to the
\* driver unless the call fails.
v4l2_qbuf(m, index, ok) ==
  IF ok THEN [Call(m, "QBUF") EXCEPT !.queued = @ \cup {index}]
  ELSE Fail(m, "QBUF")

\* internalReadFrame giving a flagged or short buffer to the caller.
internalReadFrame_NoCorruptionCheck(m, o) ==
  IF o.status # "OK" THEN [ret |-> RetNone, m |-> Fail(m, "DQBUF")]
  ELSE
    LET m1 == v4l2_dqbuf(m, o)
    IN  [ret |-> RetFrame(o.bytesused, m.internalBuffers_[o.index + 1]),
         m |-> v4l2_qbuf(m1, o.index, o.qbuf)]

\* internalReadFrame keeping a flagged or short buffer instead of giving it
\* back to the driver.
internalReadFrame_DropsCorrupted(m, o) ==
  IF o.status # "OK" THEN [ret |-> RetNone, m |-> Fail(m, "DQBUF")]
  ELSE
    LET m1 == v4l2_dqbuf(m, o)
    IN  IF o.error \/ o.bytesused # m.imageSize_
          THEN [ret |-> RetNone, m |-> m1]
          ELSE [ret |-> RetFrame(o.bytesused, m.internalBuffers_[o.index + 1]),
                m |-> v4l2_qbuf(m1, o.index, o.qbuf)]

\* internalReadFrame looking at the ERROR flag only, not at bytesused.
internalReadFrame_ChecksFlagOnly(m, o) ==
  IF o.status # "OK" THEN [ret |-> RetNone, m |-> Fail(m, "DQBUF")]
  ELSE
    LET m1 == v4l2_dqbuf(m, o)
    IN  IF o.error
          THEN [ret |-> RetNone, m |-> v4l2_qbuf(m1, o.index, o.qbuf)]
          ELSE [ret |-> RetFrame(o.bytesused, m.internalBuffers_[o.index + 1]),
                m |-> v4l2_qbuf(m1, o.index, o.qbuf)]

internalReadFrame(m, o) ==
  IF o.status # "OK" THEN [ret |-> RetNone, m |-> Fail(m, "DQBUF")]
  ELSE
    LET m1 == v4l2_dqbuf(m, o)
    IN  IF o.error \/ o.bytesused # m.imageSize_
          THEN [ret |-> RetNone, m |-> v4l2_qbuf(m1, o.index, o.qbuf)]
          ELSE [ret |-> RetFrame(o.bytesused, m.internalBuffers_[o.index + 1]),
                m |-> v4l2_qbuf(m1, o.index, o.qbuf)]

\* ReadFrame going on to DQBUF whatever the readiness wait answered.
readFrame_IgnoresReadiness(m) ==
  IF IsStreaming(m)
    THEN UNION {
      LET r == v4l2_is_readable(m, ready)
      IN  {internalReadFrame(r.m, o) : o \in DqbufOutcomes(r.m)}
      : ready \in SelectAnswers}
    ELSE {[ret |-> RetNone, m |-> m]}

\* ReadFrame with the check for a running session left out.
readFrame_NoStreamingCheck(m) ==
  UNION {
    LET r == v4l2_is_readable(m, ready)
    IN  IF r.ok THEN {internalReadFrame(r.m, o) : o \in DqbufOutcomes(r.m)}
        ELSE {[ret |-> RetNone, m |-> r.m]}
    : ready \in SelectAnswers}

\* The body of ReadFrame on machine m: every outcome the kernel's answers
\* allow, each with the value returned.
readFrame(m) ==
  IF IsStreaming(m)
    THEN UNION {
      LET r == v4l2_is_readable(m, ready)
      IN  IF r.ok THEN {internalReadFrame(r.m, o) : o \in DqbufOutcomes(r.m)}
          ELSE {[ret |-> RetNone, m |-> r.m]}
      : ready \in SelectAnswers}
    ELSE {[ret |-> RetNone, m |-> m]}

ReadFrame ==
  /\ alive
  /\ \E f \in readFrame(Begin) : Return(f.m, "read", f.ret)

\* ---------------------------------------------------------- destruction
\* close(fd): the descriptor is released, and with it the driver's buffers
\* and the streaming session.
close_device(m) ==
  [Call(m, "close") EXCEPT !.fdOpen = FALSE, !.closeCount = @ + 1,
                           !.reqOutstanding = FALSE, !.streamOn = FALSE,
                           !.queued = {}]

\* The destructor giving up when StopStreaming fails.
destructor_StopFailureSkipsClose(m, streamoff) ==
  IF ~IsOpened(m) THEN m
  ELSE LET r == IF IsStreaming(m) THEN stopStreaming(m, streamoff) ELSE Res(TRUE, m)
       IN  IF r.ok THEN close_device(r.m) ELSE r.m

\* The body of ~VideoCapture on machine m.
destructor(m, streamoff) ==
  IF ~IsOpened(m) THEN m
  ELSE close_device(IF IsStreaming(m) THEN stopStreaming(m, streamoff).m ELSE m)

\* The object is destroyed: the destructor runs, then the members are
\* destroyed, the ring with them.
Destroy ==
  /\ alive
  /\ alive' = FALSE
  /\ \E streamoff \in BOOLEAN :
       Return(unmapAll(destructor(Begin, streamoff)), "destroy", RetVoid)

Next ==
  \/ StartStreaming /\ alive' = alive
  \/ StopStreaming /\ alive' = alive
  \/ Set /\ alive' = alive
  \/ ReadFrame /\ alive' = alive
  \/ Destroy

Spec == Init /\ [][Next]_vars

\* The same object on a device whose driver adjusts the format it is asked for.
InitAdjusting ==
  \E h \in OpenResults :
    /\ alive = TRUE /\ handle_ = h /\ isStreaming_ = FALSE
    /\ params_ = [FRAME_WIDTH |-> 640, FRAME_HEIGHT |-> 480, FRAME_RATE |-> 30,
                  V4L2_PIX_FMT |-> 1196444237,
                  V4L2_BUFFERS_NUM |-> CHOOSE n \in CtorBufferNums : TRUE]
    /\ imageSize_ = 0 /\ internalBuffers_ = <<>>
    /\ fdOpen = (h # CLOSED_HANDLE) /\ closeCount = 0 /\ mapped = {}
    /\ reqOutstanding = FALSE /\ streamOn = FALSE /\ queued = {}
    /\ driver = "adjusting" /\ format = NoFormat /\ sequence = 0
    /\ lastOp = "construct" /\ args = <<>> /\ ret = RetVoid /\ calls = <<>>
    /\ failures = {} /\ reqbufs = NoReqbufs /\ dq = NoDq
    /\ probe = NoProbe /\ parm = NoParm /\ readable = "none"
    /\ xio = XioIdle

SpecAdjusting == InitAdjusting /\ [][Next]_vars

\* The same object on a device whose driver numbers the buffers it fills.
InitCounting ==
  \E h \in OpenResults :
    /\ alive = TRUE /\ handle_ = h /\ isStreaming_ = FALSE
    /\ params_ = [FRAME_WIDTH |-> 640, FRAME_HEIGHT |-> 480, FRAME_RATE |-> 30,
                  V4L2_PIX_FMT |-> 1196444237,
                  V4L2_BUFFERS_NUM |-> CHOOSE n \in CtorBufferNums : TRUE]
    /\ imageSize_ = 0 /\ internalBuffers_ = <<>>
    /\ fdOpen = (h # CLOSED_HANDLE) /\ closeCount = 0 /\ mapped = {}
    /\ reqOutstanding = FALSE /\ streamOn = FALSE /\ queued = {}
    /\ driver = "counting" /\ format = NoFormat /\ sequence = 0
    /\ lastOp = "construct" /\ args = <<>> /\ ret = RetVoid /\ calls = <<>>
    /\ failures = {} /\ reqbufs = NoReqbufs /\ dq = NoDq
    /\ probe = NoProbe /\ parm = NoParm /\ readable = "none"
    /\ xio = XioIdle

SpecCounting == InitCounting /\ [][Next]_vars

\* The same object on a device whose driver rounds the frame rate it is asked
\* for.
InitRounding ==
  \E h \in OpenResults :
    /\ alive = TRUE /\ handle_ = h /\ isStreaming_ = FALSE
    /\ params_ = [FRAME_WIDTH |-> 640, FRAME_HEIGHT |-> 480, FRAME_RATE |-> 30,
                  V4L2_PIX_FMT |-> 1196444237,
                  V4L2_BUFFERS_NUM |-> CHOOSE n \in CtorBufferNums : TRUE]
    /\ imageSize_ = 0 /\ internalBuffers_ = <<>>
    /\ fdOpen = (h # CLOSED_HANDLE) /\ closeCount = 0 /\ mapped = {}
    /\ reqOutstanding = FALSE /\ streamOn = FALSE /\ queued = {}
    /\ driver = "rounding" /\ format = NoFormat /\ sequence = 0
    /\ lastOp = "construct" /\ args = <<>> /\ ret = RetVoid /\ calls = <<>>
    /\ failures = {} /\ reqbufs = NoReqbufs /\ dq = NoDq
    /\ probe = NoProbe /\ parm = NoParm /\ readable = "none"
    /\ xio = XioIdle

SpecRounding == InitRounding /\ [][Next]_vars

\* ------------------------------------------------------ the ioctl wrapper
\* The requests the wrapper is called with, and the errors ioctl fails with.
XioRequests == {"VIDIOC_QUERYCAP", "VIDIOC_S_FMT", "VIDIOC_S_PARM",
                "VIDIOC_REQBUFS", "VIDIOC_QBUF", "VIDIOC_DQBUF"}

Errnos == {"EINTR", "EAGAIN", "EINVAL", "EIO"}

\* What one ioctl call answers: success, which leaves errno as it was, or
\* the error code with errno set; a signal interrupts at most MaxIntr calls
\* in a row.
IoctlAnswers ==
  {[value |-> 0, errno |-> xio.errno]}
    \cup {[value |-> IOCTL_ERROR_CODE, errno |-> e] :
            e \in IF xio.interrupted < MaxIntr THEN Errnos ELSE Errnos \ {"EINTR"}}

\* The wrapper returning whatever the first ioctl call answered.
xioctl_retry_Never(value, errno) == FALSE

\* The condition of the do-while loop.
xioctl_retry(value, errno) == value = IOCTL_ERROR_CODE /\ errno = "EINTR"

\* Everything but the wrapper.
callerVars == <<alive, handle_, isStreaming_, params_, imageSize_,
                internalBuffers_, fdOpen, closeCount, mapped, reqOutstanding,
                streamOn, queued, driver, format, sequence, lastOp, args, ret,
                calls, failures, reqbufs, dq, probe, parm, readable>>

\* xioctl is called.
XioctlEnter ==
  /\ xio.pc \in {"idle", "done"}
  /\ \E request \in XioRequests :
       xio' = [XioIdle EXCEPT !.pc = "ioctl", !.request = request,
                              !.errno = xio.errno]
  /\ UNCHANGED callerVars

\* ret = ioctl(fd, request, arg)
XioctlIoctl ==
  /\ xio.pc = "ioctl"
  /\ \E a \in IoctlAnswers :
       xio' = [xio EXCEPT
                 !.pc = "while", !.ret = a.value, !.errno = a.errno,
                 !.answer = a, !.issued = @ + 1,
                 !.interrupted =
                    IF a.value = IOCTL_ERROR_CODE /\ a.errno = "EINTR"
                      THEN @ + 1 ELSE @]
  /\ UNCHANGED callerVars

\* while (ret == IOCTL_ERROR_CODE && errno == EINTR)
XioctlWhile ==
  /\ xio.pc = "while"
  /\ xio' = [xio EXCEPT !.pc = IF xioctl_retry(xio.ret, xio.errno)
                                 THEN "ioctl" ELSE "return"]
  /\ UNCHANGED callerVars

\* return ret
XioctlReturn ==
  /\ xio.pc = "return"
  /\ xio' = [xio EXCEPT !.pc = "done", !.result = xio.ret]
  /\ UNCHANGED callerVars

\* A call that has begun goes on.
XioctlRun == XioctlIoctl \/ XioctlWhile \/ XioctlReturn

NextXioctl == XioctlEnter \/ XioctlRun

SpecXioctl == Init /\ [][NextXioctl]_vars /\ WF_vars(XioctlRun)

\* ------------------------------------------------------------- claims
ObjectState == <<handle_, isStreaming_, params_, imageSize_, internalBuffers_>>

KernelState == <<fdOpen, closeCount, mapped, reqOutstanding, streamOn, queued>>

\* The last operation made the kernel call name.
Made(name) == \E i \in 1..Len(calls) : calls[i] = name

\* C1: in every reachable state, is_streaming() implies is_opened().
C1_StreamingImpliesOpened == isStreaming_ => IsOpened(Begin)

C1_Witness == alive /\ lastOp = "start" /\ isStreaming_ /\ IsOpened(Begin)

\* C2: a start that fails on an open handle leaves the ring empty, every
\* mapping unmapped, no REQBUFS outstanding, the object not streaming and the
\* descriptor open.
C2_FailedStartRollsBack ==
  (alive /\ lastOp = "start" /\ ReturnedFalse /\ IsOpened(Begin))
    => /\ internalBuffers_ = <<>>
       /\ mapped = {}
       /\ ~reqOutstanding
       /\ ~isStreaming_
       /\ fdOpen

\* C3: between operations exactly one holds: the ring is empty, or a non-zero
\* REQBUFS is outstanding (not yet followed by REQBUFS(0) or close).
C3_RingXorReqbufs == (internalBuffers_ = <<>>) # reqOutstanding

\* C4: after a start that returns true the live mmap regions number
\* get(BUFFERS_NUM); after a stop that returns true there is none.
C4_LiveMappingsMatch ==
  /\ (alive /\ lastOp = "start" /\ ReturnedTrue)
       => Cardinality(mapped) = params_["V4L2_BUFFERS_NUM"]
  /\ (alive /\ lastOp = "stop" /\ ReturnedTrue) => mapped = {}

\* C5: a stop called while streaming ends with the object not streaming and
\* the ring released, whatever STREAMOFF answered.
C5_StopProceedsToStopped ==
  [][(alive /\ isStreaming_ /\ IsOpened(Begin) /\ lastOp' = "stop")
       => (~isStreaming_' /\ internalBuffers_' = <<>> /\ mapped' = {})]_vars

\* C6: destroying a streaming object makes the kernel see one STREAMOFF, one
\* munmap per ring buffer, one REQBUFS(0) and one close, in that order.
C6_DestroyWhileStreamingOrder ==
  [][(alive /\ isStreaming_ /\ lastOp' = "destroy")
       => calls' = <<"STREAMOFF">> \o Repeat("munmap", Len(internalBuffers_))
                     \o <<"REQBUFS0", "close">>]_vars

\* C7: after destruction the descriptor is not open, no mapping is live, and
\* a descriptor that was opened has been closed exactly once (never twice).
C7_DestroyedLeavesNothing ==
  /\ closeCount <= (IF IsOpened(Begin) THEN 1 ELSE 0)
  /\ ~alive => /\ ~fdOpen
               /\ mapped = {}
               /\ closeCount = (IF IsOpened(Begin) THEN 1 ELSE 0)

C7_Witness ==
  ~alive /\ lastOp = "destroy" /\ isStreaming_ /\ Made("munmap") /\ closeCount = 1

\* C8: set called while streaming returns false and changes no parameter.
C8_SetRejectedWhileStreaming ==
  [][(alive /\ isStreaming_ /\ lastOp' = "set")
       => (ret' = RetBool(FALSE) /\ params_' = params_)]_vars

C8_Witness == alive /\ isStreaming_ /\ lastOp = "set" /\ ReturnedFalse

\* C9: read called while not streaming returns None, makes no kernel call
\* (no readiness wait, DQBUF or QBUF) and changes nothing.
C9_ReadOutsideStreaming ==
  [][(alive /\ ~isStreaming_ /\ lastOp' = "read")
       => (ret'.kind = "none" /\ calls' = <<>>
           /\ ObjectState' = ObjectState /\ KernelState' = KernelState)]_vars

C9_Witness ==
  alive /\ ~isStreaming_ /\ lastOp = "read" /\ ret.kind = "none" /\ calls = <<>>

\* C10: stop called on an open handle that is not streaming returns true,
\* makes no kernel call (no STREAMOFF, munmap or REQBUFS) and changes nothing.
C10_StopWhenNotStreaming ==
  [][(alive /\ IsOpened(Begin) /\ ~isStreaming_ /\ lastOp' = "stop")
       => (ret' = RetBool(TRUE) /\ calls' = <<>>
           /\ ObjectState' = ObjectState /\ KernelState' = KernelState)]_vars

C10_Witness ==
  alive /\ IsOpened(Begin) /\ ~isStreaming_ /\ lastOp = "stop" /\ ReturnedTrue
    /\ calls = <<>>

\* How many times the last operation made the kernel call name.
Count(name) == Cardinality({i \in 1..Len(calls) : calls[i] = name})

\* The last operation's call name was answered without an error.
Succeeded(name) == Made(name) /\ name \notin failures

\* C11: a start whose REQBUFS is granted fewer than 2 buffers returns false,
\* and the object is never streaming with fewer than 2 buffers in the ring.
C11_InsufficientGrantFails ==
  /\ (alive /\ lastOp = "start" /\ Succeeded("REQBUFS") /\ reqbufs.granted < 2)
       => ReturnedFalse
  /\ (alive /\ isStreaming_) => Len(internalBuffers_) >= 2

\* C12: a start whose REQBUFS is granted g buffers, 2 <= g < the count asked
\* for, and whose later calls all succeed returns true, has queried, mapped
\* and enqueued exactly g buffers, and leaves get(BUFFERS_NUM) = g.
C12_PartialGrantAdopted ==
  [][(/\ alive /\ lastOp' = "start" /\ Succeeded("REQBUFS")'
      /\ reqbufs'.granted >= 2 /\ reqbufs'.granted < reqbufs'.asked
      /\ failures' \cap {"QUERYBUF", "mmap", "QBUF", "STREAMON"} = {})
       => (/\ ret' = RetBool(TRUE)
           /\ Count("QUERYBUF")' = reqbufs'.granted
           /\ Count("mmap")' = reqbufs'.granted
           /\ Count("QBUF")' = reqbufs'.granted
           /\ Cardinality(mapped' \ mapped) = reqbufs'.granted
           /\ queued' = 0..(reqbufs'.granted - 1)
           /\ params_'["V4L2_BUFFERS_NUM"] = reqbufs'.granted)]_vars

C12_Witness ==
  /\ alive /\ lastOp = "start" /\ ReturnedTrue /\ isStreaming_
  /\ reqbufs.asked = 4 /\ reqbufs.granted = 2
  /\ params_["V4L2_BUFFERS_NUM"] = 2 /\ Count("QBUF") = 2

\* C13: while not streaming, set(BUFFERS_NUM, v) returns true and stores v
\* exactly when 2 <= v <= 32; for any other v it returns false and leaves the
\* stored count unchanged.
C13_BufferCountRange ==
  [][(/\ alive /\ ~isStreaming_ /\ lastOp' = "set"
      /\ args'[1] = "V4L2_BUFFERS_NUM")
       => IF is_in_range(2, V4L2_MAX_BUFFER_SIZE, args'[2])
            THEN ret' = RetBool(TRUE) /\ params_'["V4L2_BUFFERS_NUM"] = args'[2]
            ELSE /\ ret' = RetBool(FALSE)
                 /\ params_'["V4L2_BUFFERS_NUM"] = params_["V4L2_BUFFERS_NUM"]]_vars

\* The ring positions, and the buffers of them that are neither queued nor
\* filled and waiting in the driver.
RingIndexes == {internalBuffers_[i].index : i \in 1..Len(internalBuffers_)}

\* C14: while the object is streaming between two calls, the ring is mapped
\* and every ring buffer is owned by the driver: no read returns leaving a
\* dequeued buffer with the caller.
C14_RingOwnedByDriver ==
  (alive /\ isStreaming_)
    => /\ internalBuffers_ # <<>>
       /\ \A i \in 1..Len(internalBuffers_) : internalBuffers_[i] \in mapped
       /\ queued = RingIndexes

\* The buffer the last operation dequeued is flagged or is not of the
\* negotiated size.
Corrupted == dq.taken /\ (dq.error \/ dq.bytesused # imageSize_)

\* The last read hit a timeout or a failed wait, a failed DQBUF, or a
\* corrupted buffer.
Transient ==
  \/ calls = <<"select">>
  \/ "DQBUF" \in failures
  \/ Corrupted

\* Some answer of the kernel makes the next read deliver a frame.
CanDeliver == \E f \in readFrame(Begin) : f.ret.kind = "frame"

C16_CorruptedBufferRequeued ==
  [][(alive /\ isStreaming_ /\ lastOp' = "read" /\ dq'.taken)
       => IF Corrupted'
            THEN /\ ret'.kind = "none"
                 /\ calls' = <<"select", "DQBUF", "QBUF">>
                 /\ "QBUF" \notin failures' => queued' = queued
                 /\ queued' \subseteq queued
            ELSE ret'.kind = "frame" /\ ret'.length = dq'.bytesused]_vars

C16_Witness ==
  /\ alive /\ isStreaming_ /\ lastOp = "read" /\ dq.taken /\ dq.error
  /\ ret.kind = "none" /\ Count("QBUF") = 1 /\ dq.index \in queued

\* C17: every Frame returned by read has a length equal to the sizeimage of
\* the format negotiated by the start that opened the session.
C17_FrameLengthIsSizeImage ==
  (alive /\ lastOp = "read" /\ ret.kind = "frame")
    => ret.length = format.sizeimage

C17_Witness ==
  /\ alive /\ isStreaming_ /\ lastOp = "read" /\ ret.kind = "frame"
  /\ format.width = FallbackWidth /\ ret.length = SizeImage(FallbackWidth)

\* C18: within a session each Frame returned by read carries the sequence
\* number the driver gave the dequeued buffer, and of two reads in a row that
\* both return a Frame the second has the larger sequence number.
C18_SequenceMirrorsDriver ==
  [][(alive /\ isStreaming_ /\ lastOp' = "read" /\ ret'.kind = "frame")
       => (/\ ret'.sequence = dq'.sequence
           /\ (lastOp = "read" /\ ret.kind = "frame")
                => ret'.sequence > ret.sequence)]_vars

\* The object after a stop: open, not streaming, nothing mapped, nothing
\* held by the driver.
Stopped ==
  /\ IsOpened(Begin) /\ fdOpen /\ ~isStreaming_ /\ ~streamOn
  /\ internalBuffers_ = <<>> /\ mapped = {} /\ ~reqOutstanding /\ queued = {}

C20_FormatMismatchFails ==
  [][(/\ alive /\ lastOp' = "start" /\ Succeeded("S_FMT")'
      /\ \/ format'.pixelformat # params_["V4L2_PIX_FMT"]
         \/ format'.width # params_["FRAME_WIDTH"]
         \/ format'.height # params_["FRAME_HEIGHT"])
       => (/\ ret' = RetBool(FALSE)
           /\ ~Made("REQBUFS")' /\ ~Made("mmap")'
           /\ ~isStreaming_' /\ handle_' # CLOSED_HANDLE)]_vars

\* The last operation's probe was answered, and with a bitfield that has
\* VIDEO_CAPTURE and STREAMING and an input that is a camera with power and
\* signal.
ProbeConfirmed ==
  /\ probe.asked /\ probe.querycap
  /\ {"VIDEO_CAPTURE", "STREAMING"} \subseteq probe.bits
  /\ probe.input = "CAMERA_OK"

\* C21: a start on an object that is not streaming goes on to format
\* negotiation only when the capability probe succeeded and confirmed
\* VIDEO_CAPTURE, STREAMING and a camera input with power and signal; in every
\* other case, a failed QUERYCAP included, it returns false and makes no
\* TRY_FMT, S_FMT, REQBUFS or STREAMON.
C21_ProbeGatesNegotiation ==
  [][(alive /\ ~isStreaming_ /\ lastOp' = "start" /\ ~ProbeConfirmed')
       => (/\ ret' = RetBool(FALSE)
           /\ ~Made("TRY_FMT")' /\ ~Made("S_FMT")'
           /\ ~Made("REQBUFS")' /\ ~Made("STREAMON")')]_vars

\* The position of the first call name among the last operation's calls
\* (0: it was not made).
FirstCall(name) ==
  IF Made(name) THEN CHOOSE i \in 1..Len(calls) :
                       calls[i] = name /\ \A j \in 1..(i - 1) : calls[j] # name
  ELSE 0

\* C22: a read makes DQBUF only after its readiness wait reported the
\* descriptor ready; a read whose wait timed out or failed returns None and
\* makes neither DQBUF nor QBUF.
C22_DqbufOnlyWhenReady ==
  (alive /\ lastOp = "read")
    => /\ Made("DQBUF")
            => (readable = "ready" /\ FirstCall("select") = 1
                /\ FirstCall("DQBUF") > FirstCall("select"))
       /\ readable \in {"timeout", "error"}
            => (ret.kind = "none" /\ ~Made("DQBUF") /\ ~Made("QBUF"))

C22_Witness ==
  /\ alive /\ isStreaming_ /\ lastOp = "read" /\ readable = "timeout"
  /\ ret.kind = "none" /\ calls = <<"select">>

\* Every call a of the last operation was made before every call b of it.
Before(a, b) ==
  \A i, j \in 1..Len(calls) : (calls[i] = a /\ calls[j] = b) => i < j

\* C23: a start makes STREAMON only after a successful QBUF of every buffer
\* of the ring, index 0 up to the ring's size, and those only after REQBUFS
\* and the QUERYBUF and mmap of every index; a start one of whose QBUFs fails
\* makes no STREAMON.
C23_QueueBeforeStreamOn ==
  (alive /\ lastOp = "start")
    => /\ Made("STREAMON")
            => LET n == Len(internalBuffers_)
               IN  /\ Succeeded("REQBUFS") /\ "QBUF" \notin failures
                   /\ Count("QUERYBUF") = n /\ Count("mmap") = n
                   /\ Count("QBUF") = n /\ 0..(n - 1) \subseteq queued
                   /\ Before("REQBUFS", "QUERYBUF") /\ Before("REQBUFS", "mmap")
                   /\ Before("QUERYBUF", "QBUF") /\ Before("mmap", "QBUF")
                   /\ Before("QBUF", "STREAMON")
       /\ "QBUF" \in failures => ~Made("STREAMON")

\* How many of the last operation's calls name were answered without an
\* error (an operation stops at the first failure of a call it repeats).
Answered(name) == Count(name) - (IF name \in failures THEN 1 ELSE 0)

\* C24: tearing the ring down unmaps each mapping exactly once and can be
\* repeated: in every operation each munmap releases a live mapping that no
\* earlier munmap released, the munmaps come before the REQBUFS(0) that
\* follows them, and a teardown that finds the ring empty makes no munmap and
\* no REQBUFS(0).
C24_TeardownUnmapsOnce ==
  [][alive
       => (/\ Cardinality(mapped') = Cardinality(mapped) + Answered("mmap")'
                                       - Count("munmap")'
           /\ Before("munmap", "REQBUFS0")'
           /\ Count("REQBUFS0")' <= 1
           /\ Made("munmap")' => internalBuffers_' = <<>>
           /\ (internalBuffers_ = <<>> /\ ~Made("mmap")')
                => (~Made("munmap")' /\ ~Made("REQBUFS0")'))]_vars

C24_Witness ==
  /\ alive /\ lastOp = "stop" /\ ReturnedTrue /\ Count("munmap") = 2
  /\ Made("REQBUFS0") /\ internalBuffers_ = <<>> /\ mapped = {}

\* C25: a start that has installed the format on a driver whose capability
\* bitfield lacks TIMEPERFRAME skips the frame-rate step (no S_PARM, so none
\* whose failure could end the start) and goes on to REQBUFS; a start whose
\* S_PARM is answered, with the rate asked for or with a rounded one, goes on
\* to REQBUFS as well and leaves get(FRAME_RATE) at the driver's denominator.
C25_FrameRateNeverFatal ==
  [][(alive /\ ~isStreaming_ /\ lastOp' = "start" /\ Succeeded("S_FMT")')
       => (/\ (probe'.querycap /\ "TIMEPERFRAME" \notin probe'.bits)
                => (~Made("S_PARM")' /\ Made("REQBUFS")')
           /\ Succeeded("S_PARM")'
                => (/\ Made("REQBUFS")'
                    /\ parm'.answered
                    /\ params_'["FRAME_RATE"] = parm'.denominator))]_vars

\* The wrapper hands an interrupted call's failure to its caller.
ReturnedEintr == xio.result = IOCTL_ERROR_CODE /\ xio.errno = "EINTR"

\* C26: the ioctl wrapper issues the ioctl again as long as it fails with
\* EINTR and returns the first answer that is not an EINTR failure as it got
\* it (value and errno); it never returns an EINTR failure, and a call ends
\* when the signals do.
C26_XioctlRetriesOnEintr ==
  /\ [](xio.pc = "done"
          => /\ xio.result = xio.answer.value /\ xio.errno = xio.answer.errno
             /\ ~ReturnedEintr
             /\ xio.issued = xio.interrupted + 1)
  /\ [][(xio.pc = "while" /\ xio.ret = IOCTL_ERROR_CODE /\ xio.errno = "EINTR")
          => xio'.pc = "ioctl"]_vars
  /\ (xio.pc = "ioctl") ~> (xio.pc = "done")

C26_Witness ==
  /\ xio.pc = "done" /\ xio.request = "VIDIOC_DQBUF"
  /\ xio.interrupted = 2 /\ xio.issued = 3
  /\ xio.result = IOCTL_ERROR_CODE /\ xio.errno = "EAGAIN"

\* C27: between operations the ring is empty or has get(BUFFERS_NUM) entries,
\* whatever starts failed or were repeated before, and its entries all belong
\* to the buffer set of one start.
C27_RingSizeIsBufferCount ==
  alive
    => /\ Len(internalBuffers_) \in {0, params_["V4L2_BUFFERS_NUM"]}
       /\ \A i, j \in 1..Len(internalBuffers_) :
            internalBuffers_[i].gen = internalBuffers_[j].gen

\* The buffer set the driver holds: the one granted last.
CurrentGen == NextGen(Begin) - 1

\* C28: a read that returns a frame took it from the ring entry at the index
\* DQBUF answered: the index is smaller than the ring's size, and the entry
\* there is the live mapping of the driver's buffer with that index.
C28_DequeuedIndexIsLiveEntry ==
  (alive /\ lastOp = "read" /\ ret.kind = "frame")
    => /\ dq.taken /\ dq.index < Len(internalBuffers_)
       /\ ret.entry = internalBuffers_[dq.index + 1]
       /\ ret.entry \in mapped
       /\ ret.entry.index = dq.index
       /\ ret.entry.gen = CurrentGen

====
